---- MODULE Spec2Model ----
(***************************************************************************)
(* RSKernelUCBVIAgent (rlberry/agents/kernel_based/rs_kernel_ucbvi.py):    *)
(* kernel-based UCBVI on representative states.                            *)
(*                                                                         *)
(* Real numbers are exact rationals <<n, d>> (d > 0, lowest terms); the    *)
(* value <<1, 0>> is +infinity.  Arrays are functions over 0..n-1.  The    *)
(* state space is one-dimensional; a coordinate c stands for the state     *)
(* c * 0.05, so 2, 11, 12 and 20 are the states 0.1, 0.55, 0.6 and 1.0.    *)
(***************************************************************************)
EXTENDS Integers, Sequences, FiniteSets, TLC

VARIABLES
    gamma, max_repr, n_episodes,            \* constructor arguments
    M, representative_states,               \* representative-state set
    N_sa, B_sa, R_hat, P_hat,               \* kernel-smoothed model
    V, Q, Q_policy,                         \* value tables
    episode, rewards, cumul_rewards,        \* fit bookkeeping
    pc, kk, hh, state, episode_rewards,     \* position inside fit / _run_episode
    updated, rlog, nsteps,                  \* history: touched (u, a), rewards seen, steps since reset
    last                                    \* the last call and the resolve calls it made

vars == << gamma, max_repr, n_episodes, M, representative_states,
           N_sa, B_sa, R_hat, P_hat, V, Q, Q_policy,
           episode, rewards, cumul_rewards,
           pc, kk, hh, state, episode_rewards, updated, rlog, nsteps, last >>

----------------------------------------------------------------------------
(* Bounds of the model *)

MaxRepr == 2      \* max_repr ranges over 1 .. MaxRepr
MaxSteps == 4     \* environment steps taken between two resets

----------------------------------------------------------------------------
(* Exact rational arithmetic *)

Abs(x) == IF x < 0 THEN -x ELSE x

RECURSIVE GCD(_, _)
GCD(a, b) == IF b = 0 THEN a ELSE GCD(b, a % b)

Frac(n, d) ==
    LET s == IF d < 0 THEN -1 ELSE 1
        g == GCD(Abs(n), Abs(d))
    IN  << (s * n) \div g, (s * d) \div g >>

Zero == << 0, 1 >>
One  == << 1, 1 >>
Half == << 1, 2 >>
Inf  == << 1, 0 >>
Int2R(i) == << i, 1 >>

RAdd(x, y) ==
    IF x[1] = 0 THEN y
    ELSE IF y[1] = 0 THEN x
    ELSE IF x[2] = y[2] THEN Frac(x[1] + y[1], x[2])
    ELSE LET g == GCD(x[2], y[2])
             l == (x[2] \div g) * y[2]
         IN  Frac(x[1] * (l \div x[2]) + y[1] * (l \div y[2]), l)
RNeg(x)    == << -x[1], x[2] >>
RSub(x, y) == RAdd(x, RNeg(y))
RMul(x, y) ==
    IF x[1] = 0 \/ y[1] = 0 THEN << 0, 1 >>
    ELSE IF x = << 1, 1 >> THEN y
    ELSE IF y = << 1, 1 >> THEN x
    ELSE LET a == Frac(x[1], y[2])
             b == Frac(y[1], x[2])
         IN  << a[1] * b[1], a[2] * b[2] >>
RDiv(x, y) == RMul(x, Frac(y[2], y[1]))
RLt(x, y)  == x[1] * y[2] < y[1] * x[2]
RLe(x, y)  == x[1] * y[2] <= y[1] * x[2]
RAbs(x)    == << Abs(x[1]), x[2] >>

RECURSIVE RPow(_, _)
RPow(x, n) == IF n = 0 THEN One ELSE RMul(x, RPow(x, n - 1))

\* sum of f[i] over i in 0..n-1
RECURSIVE RSum(_, _)
RSum(f, n) == IF n = 0 THEN Zero ELSE RAdd(RSum(f, n - 1), f[n - 1])

----------------------------------------------------------------------------
(* Environment and constructor arguments *)

StateSpace == {2, 11, 12, 20}       \* states the environment can return
EpisodeCounts == {1, 2}             \* values of n_episodes
reward_range == << 0, 2 >>          \* env.reward_range
r_min == 1                          \* the rewards the environment gives
r_max == 2
A == 2
horizon == 2
scaling == 1
min_dist == Int2R(10)
bandwidth == Int2R(36)
beta == << 1, 4 >>
bonus_scale_factor == Zero

None == << >>

Actions == 0 .. (A - 1)
Rewards == r_min .. r_max

\* __init__: v_max from the reward range, the horizon and gamma
v_max(g) ==
    LET r_range == Int2R(reward_range[2] - reward_range[1])
    IN  IF g = One THEN RMul(r_range, Int2R(horizon))
        ELSE RDiv(RMul(r_range, RSub(One, RPow(g, horizon))), RSub(One, g))

----------------------------------------------------------------------------
(* rlberry.agents.utils.metrics / rlberry.agents.kernel_based.kernels *)

\* Lp distance of two scaled one-dimensional states, (|(x-y)/scaling|^p)^(1/p),
\* which is |x-y|/scaling for every lp_metric p
metric_lp(x, y) == Frac(Abs(x - y), scaling)

\* kernel_type = "epanechnikov": max(0, 1 - z^2) on |z| <= 1
kernel_func(z) ==
    IF RLe(RAbs(z), One) THEN RSub(One, RMul(z, z)) ELSE Zero

----------------------------------------------------------------------------
(* numpy helpers *)

\* the array f with all its entries computed (f itself, as a value)
Array(f) == f @@ << >>

\* a[i] with a negative i counts from the end of an axis of length n
PyIndex(i, n) == IF i < 0 THEN n + i ELSE i

\* numpy argmax of row[0..n-1]: first index holding the maximum
RECURSIVE argmax_from(_, _, _, _)
argmax_from(row, n, ii, best) ==
    IF ii >= n THEN best
    ELSE IF RLt(row[best], row[ii]) THEN argmax_from(row, n, ii + 1, ii)
         ELSE argmax_from(row, n, ii + 1, best)
argmax(row, n) == argmax_from(row, n, 1, 0)

----------------------------------------------------------------------------
(* map_to_representative *)

\* the scan with "dist <= dist_to_closest": the last index wins a tie
RECURSIVE closest_le(_, _, _, _, _, _)
closest_le(ii, n_representatives, st, reprs, dist_to_closest, argmin) ==
    IF ii >= n_representatives
    THEN [dist_to_closest |-> dist_to_closest, argmin |-> argmin]
    ELSE LET dist == metric_lp(st, reprs[ii])
         IN  IF RLe(dist, dist_to_closest)
             THEN closest_le(ii + 1, n_representatives, st, reprs, dist, ii)
             ELSE closest_le(ii + 1, n_representatives, st, reprs, dist_to_closest, argmin)

\* the scan of lines 26-32, from index ii on
RECURSIVE closest(_, _, _, _, _, _)
closest(ii, n_representatives, st, reprs, dist_to_closest, argmin) ==
    IF ii >= n_representatives
    THEN [dist_to_closest |-> dist_to_closest, argmin |-> argmin]
    ELSE LET dist == metric_lp(st, reprs[ii])
         IN  IF RLt(dist, dist_to_closest)
             THEN closest(ii + 1, n_representatives, st, reprs, dist, ii)
             ELSE closest(ii + 1, n_representatives, st, reprs, dist_to_closest, argmin)

\* with "dist_to_closest >= min_dist" as the novelty test
map_to_representative_ge(st, reprs, n_representatives, accept_new_repr) ==
    LET c == closest(0, n_representatives, st, reprs, Inf, -1)
        max_representatives == Cardinality(DOMAIN reprs)
    IN  IF /\ RLe(min_dist, c.dist_to_closest)
           /\ n_representatives < max_representatives
           /\ accept_new_repr
        THEN [ret |-> n_representatives,
              reprs |-> [reprs EXCEPT ![n_representatives] = st]]
        ELSE [ret |-> c.argmin, reprs |-> reprs]

\* moving the closest representative onto the state when none is created
map_to_representative_snap(st, reprs, n_representatives, accept_new_repr) ==
    LET c == closest(0, n_representatives, st, reprs, Inf, -1)
        max_representatives == Cardinality(DOMAIN reprs)
    IN  IF /\ RLt(min_dist, c.dist_to_closest)
           /\ n_representatives < max_representatives
           /\ accept_new_repr
        THEN [ret |-> n_representatives,
              reprs |-> [reprs EXCEPT ![n_representatives] = st]]
        ELSE [ret |-> c.argmin,
              reprs |-> [i \in DOMAIN reprs |-> IF i = c.argmin THEN st ELSE reprs[i]]]

map_to_representative(st, reprs, n_representatives, accept_new_repr) ==
    LET c == closest(0, n_representatives, st, reprs, Inf, -1)
        max_representatives == Cardinality(DOMAIN reprs)
    IN  IF /\ RLt(min_dist, c.dist_to_closest)
           /\ n_representatives < max_representatives
           /\ accept_new_repr
        THEN [ret |-> n_representatives,
              reprs |-> [reprs EXCEPT ![n_representatives] = st]]
        ELSE [ret |-> c.argmin, reprs |-> reprs]

\* _map_to_repr without the increment of M
_map_to_repr_noinc(st, accept_new_repr, reprs, m) ==
    LET r == map_to_representative(st, reprs, m, accept_new_repr)
    IN  [ret |-> r.ret, reprs |-> r.reprs, M |-> m,
         call |-> [state |-> st, accept |-> accept_new_repr,
                   Mb |-> m, Ma |-> m, ret |-> r.ret,
                   rb |-> reprs, ra |-> r.reprs]]

\* RSKernelUCBVIAgent._map_to_repr on an agent with the given set and count;
\* call is the record of the call kept in last.resolves
_map_to_repr(st, accept_new_repr, reprs, m) ==
    LET r  == map_to_representative(st, reprs, m, accept_new_repr)
        m2 == IF r.ret = m THEN m + 1 ELSE m
    IN  [ret |-> r.ret, reprs |-> r.reprs, M |-> m2,
         call |-> [state |-> st, accept |-> accept_new_repr,
                   Mb |-> m, Ma |-> m2, ret |-> r.ret,
                   rb |-> reprs, ra |-> r.reprs]]

----------------------------------------------------------------------------
(* compute_bonus, update_model *)

\* bonus_type = "simplified_bernstein"; bonus_scale_factor is 0 here, so the
\* term bonus_scale_factor*sqrt(1/n) vanishes and the bonus stays rational
compute_bonus(sum_weights, vmax) ==
    LET n == RAdd(beta, sum_weights)
    IN  RAdd(RMul(bonus_scale_factor, One),
             RDiv(RMul(RAdd(One, beta), vmax), n))

\* the transition update without the factor prev_N_sa/current_N_sa
P_hat_entry_nokeep(dirac, weight, prev_N_sa, current_N_sa, p) ==
    RAdd(RDiv(RMul(dirac, weight), current_N_sa), p)

\* lines 71-72, for one next state: the new P_hat[u, a, s]
P_hat_entry(dirac, weight, prev_N_sa, current_N_sa, p) ==
    RAdd(RDiv(RMul(dirac, weight), current_N_sa),
         RMul(RDiv(prev_N_sa, current_N_sa), p))

\* the reward update without the factor prev_N_sa/current_N_sa
R_hat_entry_nokeep(weight, reward, prev_N_sa, current_N_sa, r) ==
    RAdd(RDiv(RMul(weight, reward), current_N_sa), r)

\* line 75: the new R_hat[u, a]
R_hat_entry(weight, reward, prev_N_sa, current_N_sa, r) ==
    RAdd(RDiv(RMul(weight, reward), current_N_sa),
         RMul(RDiv(prev_N_sa, current_N_sa), r))

update_model(repr_state, action, repr_next_state, reward, n_representatives, reprs, vmax, N, B, P, R) ==
    LET Active == 0 .. (n_representatives - 1)
        dirac_next_s == [i \in Active |->
                            IF i = PyIndex(repr_next_state, n_representatives)
                            THEN One ELSE Zero]
        \* the values of the loop's local variables in iteration u_repr_state
        weight == Array([u \in Active |->
            kernel_func(RDiv(metric_lp(reprs[PyIndex(repr_state, Cardinality(DOMAIN reprs))],
                                       reprs[u]),
                             bandwidth))])
        prev_N_sa    == Array([u \in Active |-> RAdd(beta, N[u][action])])
        current_N_sa == Array([u \in Active |-> RAdd(prev_N_sa[u], weight[u])])
        hit(u, a) == u \in Active /\ a = action
        N2 == [u \in DOMAIN N |-> [a \in Actions |->
                 IF hit(u, a) THEN RAdd(N[u][a], weight[u]) ELSE N[u][a]]]
    IN  [N_sa |-> N2,
         P_hat |-> [u \in DOMAIN P |-> [a \in Actions |->
                      IF hit(u, a)
                      THEN [s \in DOMAIN P[u][a] |->
                              IF s \in Active
                              THEN P_hat_entry(dirac_next_s[s], weight[u], prev_N_sa[u],
                                               current_N_sa[u], P[u][a][s])
                              ELSE P[u][a][s]]
                      ELSE P[u][a]]],
         R_hat |-> [u \in DOMAIN R |-> [a \in Actions |->
                      IF hit(u, a)
                      THEN R_hat_entry(weight[u], Int2R(reward), prev_N_sa[u],
                                       current_N_sa[u], R[u][a])
                      ELSE R[u][a]]],
         B_sa |-> [u \in DOMAIN B |-> [a \in Actions |->
                      IF hit(u, a) THEN compute_bonus(N2[u][a], vmax) ELSE B[u][a]]]]

----------------------------------------------------------------------------
(* rlberry.agents.dynprog.utils: backward induction over S states *)

RECURSIVE max_q(_, _)
max_q(row, n) ==
    IF n = 1 THEN row[0]
    ELSE LET m == max_q(row, n - 1)
         IN  IF RLt(m, row[n - 1]) THEN row[n - 1] ELSE m

clip(x, lo, hi) == IF RLt(x, lo) THEN lo ELSE IF RLt(hi, x) THEN hi ELSE x

\* one step of the recursion: Q[h] from V[h + 1], and V[h] from Q[h]
bi_Q(R, P, S, gam, Vn) ==
    Array([s \in 0 .. (S - 1) |-> Array([a \in Actions |->
        RAdd(R[s][a],
             RMul(gam, RSum([s2 \in 0 .. (S - 1) |-> RMul(P[s][a][s2], Vn[s2])], S)))])])
bi_V(Qh, S, vmax) ==
    Array([s \in 0 .. (S - 1) |-> clip(max_q(Qh[s], A), Zero, vmax)])

\* the tables for the steps h .. horizon-1
RECURSIVE bi_from(_, _, _, _, _, _)
bi_from(h, R, P, S, gam, vmax) ==
    IF h = horizon
    THEN [Q |-> << >>, V |-> (horizon :> [s \in 0 .. (S - 1) |-> Zero])]
    ELSE LET nxt == bi_from(h + 1, R, P, S, gam, vmax)
             Qh  == bi_Q(R, P, S, gam, nxt.V[h + 1])
         IN  [Q |-> (h :> Qh) @@ nxt.Q, V |-> (h :> bi_V(Qh, S, vmax)) @@ nxt.V]

backward_induction(R, P, S, gam, vmax) ==
    LET res == bi_from(0, R, P, S, gam, vmax)
    IN  [Q |-> [h \in 0 .. (horizon - 1) |-> res.Q[h]],
         V |-> [h \in 0 .. (horizon - 1) |-> res.V[h]]]

\* writes the result into the first S rows of the tables Q0, V0
backward_induction_in_place(Q0, V0, R, P, S, gam, vmax) ==
    LET res == backward_induction(R, P, S, gam, vmax)
    IN  [Q |-> [h \in DOMAIN Q0 |-> [s \in DOMAIN Q0[h] |->
                  IF s < S THEN res.Q[h][s] ELSE Q0[h][s]]],
         V |-> [h \in DOMAIN V0 |-> [s \in DOMAIN V0[h] |->
                  IF s < S THEN res.V[h][s] ELSE V0[h][s]]]]

----------------------------------------------------------------------------
(* RSKernelUCBVIAgent *)

\* a call: its name, its arguments, the exception it raised ("" for none),
\* its return value and the _map_to_repr calls it made, in order
Call(op, args, raised, ret, resolves) ==
    [op |-> op, args |-> args, raised |-> raised, ret |-> ret, resolves |-> resolves]

zeros2(n, m)    == [i \in 0 .. (n - 1) |-> [j \in 0 .. (m - 1) |-> Zero]]
zeros3(n, m, k) == [i \in 0 .. (n - 1) |-> zeros2(m, k)]

\* the tables as reset() leaves them for a given gamma and max_repr
reset_M       == 0
reset_reprs(mr) == [i \in 0 .. (mr - 1) |-> 0]
reset_N_sa(mr)  == zeros2(mr, A)
reset_B_sa(g, mr) == [i \in 0 .. (mr - 1) |-> [a \in Actions |-> v_max(g)]]
reset_R_hat(mr) == zeros2(mr, A)
reset_P_hat(mr) == zeros3(mr, A, mr)
reset_V(mr)     == zeros2(horizon, mr)
reset_Q(mr)     == zeros3(horizon, mr, A)

\* __init__ followed by its reset(); _rewards and _cumul_rewards do not exist yet
Init ==
    /\ gamma \in {One, Half}
    /\ max_repr \in 1 .. MaxRepr
    /\ n_episodes \in EpisodeCounts
    /\ M = reset_M
    /\ representative_states = reset_reprs(max_repr)
    /\ N_sa = reset_N_sa(max_repr)
    /\ B_sa = reset_B_sa(gamma, max_repr)
    /\ R_hat = reset_R_hat(max_repr)
    /\ P_hat = reset_P_hat(max_repr)
    /\ V = reset_V(max_repr)
    /\ Q = reset_Q(max_repr)
    /\ Q_policy = None
    /\ episode = 0
    /\ rewards = << >>
    /\ cumul_rewards = << >>
    /\ pc = "idle"
    /\ kk = 0
    /\ hh = 0
    /\ state = 0
    /\ episode_rewards = 0
    /\ updated = {}
    /\ rlog = << >>
    /\ nsteps = 0
    /\ last = Call("init", << >>, "", 0, << >>)

config == << gamma, max_repr, n_episodes >>
model  == << N_sa, B_sa, R_hat, P_hat >>

reset ==
    /\ pc = "idle"
    /\ M' = reset_M
    /\ representative_states' = reset_reprs(max_repr)
    /\ N_sa' = reset_N_sa(max_repr)
    /\ B_sa' = reset_B_sa(gamma, max_repr)
    /\ R_hat' = reset_R_hat(max_repr)
    /\ P_hat' = reset_P_hat(max_repr)
    /\ V' = reset_V(max_repr)
    /\ Q' = reset_Q(max_repr)
    /\ Q_policy' = None
    /\ episode' = 0
    /\ updated' = {}
    /\ nsteps' = 0
    /\ last' = Call("reset", << >>, "", 0, << >>)
    /\ UNCHANGED << config, rewards, cumul_rewards, pc, kk, hh, state,
                    episode_rewards, rlog >>

\* policy reading Q_policy[0] whatever gamma is
policy_action_h0(st, h) ==
    LET r == _map_to_repr(st, FALSE, representative_states, M)
        row == Q_policy[0][PyIndex(r.ret, M)]
    IN  [ret |-> argmax(row, A), reprs |-> r.reprs, M |-> r.M, call |-> r.call]

\* the value policy(st, h) returns on an agent whose Q_policy is set
policy_action(st, h) ==
    LET r == _map_to_repr(st, FALSE, representative_states, M)
        row == IF gamma = One THEN Q_policy[h][PyIndex(r.ret, M)]
               ELSE Q_policy[0][PyIndex(r.ret, M)]
    IN  [ret |-> argmax(row, A), reprs |-> r.reprs, M |-> r.M, call |-> r.call]

policy(st, h) ==
    /\ pc = "idle"
    /\ IF Q_policy = None
       THEN /\ last' = Call("policy", << st, h >>, "AssertionError", 0, << >>)
            /\ UNCHANGED << M, representative_states >>
       ELSE LET p == policy_action(st, h)
            IN  /\ last' = Call("policy", << st, h >>, "", p.ret, << p.call >>)
                /\ M' = p.M
                /\ representative_states' = p.reprs
    /\ UNCHANGED << config, model, V, Q, Q_policy, episode, rewards, cumul_rewards,
                    pc, kk, hh, state, episode_rewards, updated, rlog, nsteps >>

\* fit, up to the first episode: lines 291-294
fit_begin ==
    /\ pc = "idle"
    /\ rewards' = [k \in 0 .. (n_episodes - 1) |-> 0]
    /\ cumul_rewards' = [k \in 0 .. (n_episodes - 1) |-> 0]
    /\ kk' = 0
    /\ rlog' = << >>
    /\ pc' = "episode"
    /\ last' = Call("fit_begin", << >>, "", 0, << >>)
    /\ UNCHANGED << config, M, representative_states, model, V, Q, Q_policy,
                    episode, hh, state, episode_rewards, updated, nsteps >>

\* _run_episode, lines 376-377: the environment is reset
run_episode_begin(s0) ==
    /\ pc = "episode"
    /\ episode_rewards' = 0
    /\ state' = s0
    /\ hh' = 0
    /\ rlog' = Append(rlog, << >>)
    /\ pc' = "step"
    /\ last' = Call("run_episode_begin", << s0 >>, "", 0, << >>)
    /\ UNCHANGED << config, M, representative_states, model, V, Q, Q_policy,
                    episode, rewards, cumul_rewards, kk, updated, nsteps >>

_get_action(st, h, reprs, m) ==
    LET r == _map_to_repr(st, FALSE, reprs, m)
        row == IF gamma = One THEN Q[h][PyIndex(r.ret, max_repr)]
               ELSE Q[0][PyIndex(r.ret, max_repr)]
    IN  [ret |-> argmax(row, A), reprs |-> r.reprs, M |-> r.M, call |-> r.call]

_update(st, action, next_state, reward, reprs, m) ==
    LET r1 == _map_to_repr(st, TRUE, reprs, m)
        r2 == _map_to_repr(next_state, TRUE, r1.reprs, r1.M)
        um == update_model(r1.ret, action, r2.ret, reward, r2.M, r2.reprs,
                           v_max(gamma), N_sa, B_sa, P_hat, R_hat)
    IN  [reprs |-> r2.reprs, M |-> r2.M, model |-> um,
         calls |-> << r1.call, r2.call >>]

\* _run_episode, one iteration of the loop of lines 378-383
run_episode_step(next_state, reward) ==
    /\ pc = "step"
    /\ nsteps < MaxSteps
    /\ nsteps' = nsteps + 1
    /\ \E g \in {_get_action(state, hh, representative_states, M)} :
       \E u \in {_update(state, g.ret, next_state, reward, g.reprs, g.M)} :
           /\ M' = u.M
           /\ representative_states' = u.reprs
           /\ N_sa' = u.model.N_sa
           /\ B_sa' = u.model.B_sa
           /\ P_hat' = u.model.P_hat
           /\ R_hat' = u.model.R_hat
           /\ updated' = updated \cup {<< x, g.ret >> : x \in 0 .. (u.M - 1)}
           /\ last' = Call("run_episode_step", << next_state, reward >>, "", g.ret, << g.call >> \o u.calls)
    /\ state' = next_state
    /\ episode_rewards' = episode_rewards + reward
    /\ rlog' = [rlog EXCEPT ![Len(rlog)] = Append(@, reward)]
    /\ hh' = hh + 1
    /\ pc' = IF hh + 1 < horizon THEN "step" ELSE "solve"
    /\ UNCHANGED << config, V, Q, Q_policy, episode, rewards, cumul_rewards, kk >>

\* end of _run_episode (lines 386-392) and the rest of fit's loop body (296-301)
run_episode_end ==
    /\ pc = "solve"
    /\ \E res \in {backward_induction_in_place(Q, V,
                        [s \in 0 .. (M - 1) |-> [a \in Actions |-> RAdd(R_hat[s][a], B_sa[s][a])]],
                        P_hat, M, gamma, v_max(gamma))} :
           /\ Q' = res.Q
           /\ V' = res.V
    /\ rewards' = [rewards EXCEPT ![kk] = episode_rewards]
    /\ cumul_rewards' = IF kk > 0
                        THEN [cumul_rewards EXCEPT ![kk] = episode_rewards + cumul_rewards[kk - 1]]
                        ELSE cumul_rewards
    /\ episode' = episode + 1
    /\ kk' = kk + 1
    /\ pc' = IF kk + 1 < n_episodes THEN "episode" ELSE "final"
    /\ hh' = 0
    /\ state' = 0
    /\ episode_rewards' = 0
    /\ last' = Call("run_episode_end", << >>, "", 0, << >>)
    /\ UNCHANGED << config, M, representative_states, model, Q_policy,
                    updated, rlog, nsteps >>

\* fit computing the recommended policy from R_hat + B_sa
fit_end_bonus ==
    /\ pc = "final"
    /\ Q_policy' = backward_induction(
                       [s \in 0 .. (M - 1) |-> [a \in Actions |-> RAdd(R_hat[s][a], B_sa[s][a])]],
                       P_hat, M, gamma, Inf).Q
    /\ pc' = "idle"
    /\ last' = Call("fit_end", << >>, "", n_episodes, << >>)
    /\ kk' = 0
    /\ UNCHANGED << config, M, representative_states, model, V, Q,
                    episode, rewards, cumul_rewards, hh, state,
                    episode_rewards, updated, rlog, nsteps >>

\* fit, after the loop: lines 304-310
fit_end ==
    /\ pc = "final"
    /\ Q_policy' = backward_induction(R_hat, P_hat, M, gamma, Inf).Q
    /\ pc' = "idle"
    /\ last' = Call("fit_end", << >>, "", n_episodes, << >>)
    /\ kk' = 0
    /\ UNCHANGED << config, M, representative_states, model, V, Q,
                    episode, rewards, cumul_rewards, hh, state,
                    episode_rewards, updated, rlog, nsteps >>

Next ==
    \/ reset
    \/ \E st \in StateSpace, h \in 0 .. (horizon - 1) : policy(st, h)
    \/ fit_begin
    \/ \E s0 \in StateSpace : run_episode_begin(s0)
    \/ \E ns \in StateSpace, r \in Rewards : run_episode_step(ns, r)
    \/ run_episode_end
    \/ fit_end

Spec == Init /\ [][Next]_vars

----------------------------------------------------------------------------
(* Properties *)

Resolves == {last.resolves[i] : i \in DOMAIN last.resolves}
Dist(st, reprs, j) == metric_lp(st, reprs[j])

\* r is the existing representative nearest to st, the lowest index on ties
NearestLowest(r, st, reprs, m) ==
    /\ r \in 0 .. (m - 1)
    /\ \A j \in 0 .. (m - 1) :
          /\ RLe(Dist(st, reprs, r), Dist(st, reprs, j))
          /\ j < r => RLt(Dist(st, reprs, r), Dist(st, reprs, j))

\* st is farther than min_dist from each of the first m representatives
Novel(st, reprs, m) ==
    \A j \in 0 .. (m - 1) : RLt(min_dist, Dist(st, reprs, j))

\* C1: every _map_to_repr(s, True) call returns an index i with
\* 0 <= i < M_after <= max_repr, and M grows by 0 or 1 in the call.
C1_ResolveCreateInRange ==
    \A c \in Resolves :
        c.accept => /\ 0 <= c.ret
                    /\ c.ret < c.Ma
                    /\ c.Ma <= max_repr
                    /\ c.Ma - c.Mb \in {0, 1}

\* a second representative is created by a creating call
C1_Witness ==
    \E c \in Resolves : c.accept /\ c.Mb = 1 /\ c.Ma = 2 /\ c.ret = 1

\* C3 (as stated): from an empty set with min_dist = 0.5 and max_repr >= 2,
\* resolving 0.1 and then 0.6 leaves M = 2, and resolving 0.55 afterwards
\* returns the index of the representative at 0.6 and creates nothing.
C3_AfterFirstPair ==
    /\ last.op = "run_episode_step"
    /\ max_repr >= 2
    /\ last.resolves[2].Mb = 0
    /\ last.resolves[2].state = 2
    /\ last.resolves[3].state = 12
C3_AfterThird ==
    /\ last.op = "run_episode_step"
    /\ max_repr >= 2
    /\ nsteps = 2 /\ hh = 2
    /\ representative_states[0] = 2
    /\ last.resolves[2].state = 12
    /\ last.resolves[3].state = 11
C3_Original ==
    /\ C3_AfterFirstPair => M = 2
    /\ C3_AfterThird => /\ M = 2
                        /\ representative_states[1] = 12
                        /\ last.resolves[3].ret = 1
                        /\ last.resolves[3].Ma = last.resolves[3].Mb

\* C3 (amended): the distance 0.5 from 0.1 to 0.6 does not exceed min_dist,
\* so 0.1, 0.6 and 0.55 all resolve to index 0 and M stays 1.
C3_Amended ==
    /\ C3_AfterFirstPair => /\ M = 1
                            /\ last.resolves[2].ret = 0
                            /\ last.resolves[3].ret = 0
    /\ C3_AfterThird => /\ M = 1
                        /\ last.resolves[2].ret = 0
                        /\ last.resolves[3].ret = 0
                        /\ last.resolves[3].ra = last.resolves[3].rb

C3_Witness == C3_AfterThird

\* C4: once M = max_repr, a _map_to_repr call with either value of
\* accept_new_repr leaves M and the coordinates unchanged and returns the
\* nearest existing representative, the lowest index on ties, however far.
C4_FullSetFallsBack ==
    \A c \in Resolves :
        c.Mb = max_repr => /\ c.Ma = c.Mb
                           /\ c.ra = c.rb
                           /\ NearestLowest(c.ret, c.state, c.rb, c.Mb)

\* with max_repr = 1, a state farther than min_dist from the only
\* representative is resolved with creation allowed
C4_Witness ==
    \E c \in Resolves :
        /\ max_repr = 1 /\ c.Mb = 1 /\ c.accept
        /\ Novel(c.state, c.rb, c.Mb)

\* C5: except in reset, no call decreases M or lets it exceed max_repr, and
\* the coordinates at every index below M are never overwritten; the same
\* holds across each _map_to_repr call inside a call.
C5_Step ==
    last'.op # "reset" =>
        /\ M' >= M
        /\ M' <= max_repr
        /\ \A i \in 0 .. (M - 1) : representative_states'[i] = representative_states[i]
        /\ \A j \in DOMAIN last'.resolves :
              LET c == last'.resolves[j]
              IN  /\ c.Ma >= c.Mb
                  /\ \A i \in 0 .. (c.Mb - 1) : c.ra[i] = c.rb[i]
C5_AppendOnly == [][C5_Step]_vars

\* a step of a later episode that resolves against two representatives
C5_Witness ==
    /\ last.op = "run_episode_step"
    /\ episode >= 1
    /\ last.resolves[1].Mb = 2

\* C10: every _map_to_repr(s, False) call, by _get_action or by policy,
\* returns an index r with 0 <= r < M.
C10_ResolveNoCreateInRange ==
    \A c \in Resolves :
        ~c.accept => 0 <= c.ret /\ c.ret < c.Ma

\* the entries (u, a) of active representatives touched by an update
Touched == {e \in updated : e[1] < M}

\* the share N/(beta + N) of the mass of an entry that is not the regulariser
Share(u, a) == RDiv(N_sa[u][a], RAdd(beta, N_sa[u][a]))

\* C2 (as stated): every touched row P_hat[u, a, 0..M-1] is non-negative
\* and sums to exactly 1.
C2_Original ==
    \A e \in Touched :
        /\ \A s \in 0 .. (M - 1) : RLe(Zero, P_hat[e[1]][e[2]][s])
        /\ RSum(P_hat[e[1]][e[2]], M) = One

\* C2 (amended): every touched row is non-negative and sums to
\* N_sa[u, a] / (beta + N_sa[u, a]), which is below 1 for beta > 0.
C2_Amended ==
    \A e \in Touched :
        /\ \A s \in 0 .. (M - 1) : RLe(Zero, P_hat[e[1]][e[2]][s])
        /\ RSum(P_hat[e[1]][e[2]], M) = Share(e[1], e[2])
        /\ RLt(RSum(P_hat[e[1]][e[2]], M), One)

\* an entry updated with a fractional kernel weight and then again
C2_Witness ==
    \E e \in Touched :
        /\ M = 2
        /\ N_sa[e[1]][e[2]][2] = 4
        /\ RLt(One, N_sa[e[1]][e[2]])
        /\ RLt(Zero, P_hat[e[1]][e[2]][0])
        /\ RLt(Zero, P_hat[e[1]][e[2]][1])

\* C8 (as stated): with rewards in [r_min, r_max], every touched entry of
\* R_hat lies in [r_min, r_max], also when r_min > 0.
C8_Original ==
    \A e \in Touched :
        /\ RLe(Int2R(r_min), R_hat[e[1]][e[2]])
        /\ RLe(R_hat[e[1]][e[2]], Int2R(r_max))

\* C8 (amended): every touched entry of R_hat lies in
\* [r_min * c, r_max * c] with c = N_sa[u, a] / (beta + N_sa[u, a]) < 1.
C8_Amended ==
    \A e \in Touched :
        /\ RLe(RMul(Int2R(r_min), Share(e[1], e[2])), R_hat[e[1]][e[2]])
        /\ RLe(R_hat[e[1]][e[2]], RMul(Int2R(r_max), Share(e[1], e[2])))

\* an entry that has seen both rewards, strictly inside the amended range
C8_Witness ==
    \E e \in Touched :
        /\ RLt(RMul(Int2R(r_min), Share(e[1], e[2])), R_hat[e[1]][e[2]])
        /\ RLt(R_hat[e[1]][e[2]], RMul(Int2R(r_max), Share(e[1], e[2])))
        /\ RLt(One, N_sa[e[1]][e[2]])

RECURSIVE SumSeq(_)
SumSeq(q) == IF q = << >> THEN 0 ELSE Head(q) + SumSeq(Tail(q))
RECURSIVE SumTo(_, _)
SumTo(f, k) == IF k < 0 THEN 0 ELSE f[k] + SumTo(f, k - 1)

\* C9: after fit, _rewards[k] is the sum of the rewards of episode k and
\* _cumul_rewards[k] is the sum of _rewards[0..k].
C9_RewardHistory ==
    last.op = "fit_end" =>
        \A k \in 0 .. (n_episodes - 1) :
            /\ rewards[k] = SumSeq(rlog[k + 1])
            /\ cumul_rewards[k] = SumTo(rewards, k)

\* a is the first action of the largest value in row
FirstMax(a, row) ==
    /\ a \in Actions
    /\ \A b \in Actions : /\ RLe(row[b], row[a])
                          /\ b < a => RLt(row[b], row[a])

\* C6: policy(state, hh) leaves M, the representatives and all tables
\* unchanged and returns the first maximal action of Q_policy[hh, r, :] for
\* gamma = 1 and of Q_policy[0, r, :] for gamma < 1, r being the nearest
\* existing representative.
C6_Step ==
    last'.op = "policy" =>
        /\ UNCHANGED << M, representative_states, N_sa, B_sa, R_hat, P_hat, Q, V, Q_policy >>
        /\ last'.raised = "" =>
              \E r \in 0 .. (M - 1) :
                  /\ NearestLowest(r, last'.args[1], representative_states, M)
                  /\ FirstMax(last'.ret,
                              Q_policy[IF gamma = One THEN last'.args[2] ELSE 0][r])
C6_PolicyFrame == [][C6_Step]_vars

\* policy answered for a state that a creating call would have added
C6_Witness ==
    /\ last.op = "policy" /\ last.raised = ""
    /\ M < max_repr
    /\ Novel(last.args[1], representative_states, M)
    /\ last.args[2] = 1 /\ gamma = One

\* Q_policy solves the bonus-free Bellman equations of R, P over m states
BonusFree(Qp, R, P, m) ==
    /\ DOMAIN Qp = 0 .. (horizon - 1)
    /\ \A h \in 0 .. (horizon - 1) :
          /\ DOMAIN Qp[h] = 0 .. (m - 1)
          /\ \A s \in 0 .. (m - 1), a \in Actions :
                Qp[h][s][a] =
                    RAdd(R[s][a],
                         RMul(gamma,
                              RSum([s2 \in 0 .. (m - 1) |->
                                       IF h = horizon - 1 THEN Zero
                                       ELSE RMul(P[s][a][s2], max_q(Qp[h + 1][s2], A))],
                                   m)))

\* C7: Q_policy is None after construction and after reset, no step of an
\* episode sets it, fit sets it once, after the last episode, from the
\* bonus-free estimates over the first M representatives, and policy fails
\* its assertion while Q_policy is None.
C7_Step ==
    /\ last'.op = "reset" => Q_policy' = None
    /\ last'.op \in {"fit_begin", "run_episode_begin", "run_episode_step", "run_episode_end"}
          => /\ Q_policy' = Q_policy
             /\ pc' # "idle"
    /\ last'.op = "fit_end" =>
          /\ pc = "final" /\ kk = n_episodes /\ pc' = "idle"
          /\ UNCHANGED << M, R_hat, P_hat >>
          /\ BonusFree(Q_policy', R_hat, P_hat, M)
    /\ last'.op = "policy" =>
          /\ Q_policy' = Q_policy
          /\ (Q_policy = None) <=> (last'.raised = "AssertionError")
C7_Lifecycle == (Q_policy = None) /\ [][C7_Step]_vars

\* fit has returned after two episodes over two representatives
C7_Witness ==
    /\ last.op = "fit_end" /\ n_episodes = 2 /\ M = 2
    /\ Q_policy # None

====
